---------------------------- MODULE Spec2Model ----------------------------
(***************************************************************************)
(* Model of the analysis engine of src/server.js: reconstruct4hFrom1h,     *)
(* the indicator library (calculateEMA, calculateRSI, calculateMACD,       *)
(* calculateBollinger, calculateADX, calculateIndicators) and               *)
(* generateAnalysis.                                                       *)
(*                                                                         *)
(* Numbers.  JavaScript doubles are modelled as fixed-point integers:      *)
(* prices, EMAs, MACD and ATR in units of 1/Scale, RSI and ADX in units of *)
(* 1/PctScale.  Divisions round towards minus infinity.  A JavaScript      *)
(* value that may be null, undefined or NaN is a record [k, v] with        *)
(* k in {"num", "null", "undefined", "NaN"}; comparisons and arithmetic on *)
(* such values follow the ECMAScript coercions (null -> 0,                 *)
(* undefined -> NaN, every comparison with NaN false).                     *)
(*                                                                         *)
(* Arrays.  A JavaScript array is a sequence; index i of the source is     *)
(* position i + 1 of the sequence.  Writing past the end of an array grows *)
(* it, as in JavaScript.                                                   *)
(***************************************************************************)
EXTENDS Integers, Sequences, FiniteSets, TLC

\* ------------------------------------------------------------------------
\* Bounds of the model
\* ------------------------------------------------------------------------

\* every candle count 0..MaxShort is explored, plus the counts of LongLens
MaxShort == 30
\* per-bar price step of a generated series: 1..MaxAmp times StepUnit, with
\* wicks of amp - 1 times WickUnit
MaxAmp == 2

\* fixed-point units per 1.0 of price
Scale == 10 ^ 5
\* fixed-point units per 1.0 of RSI / DI / DX / ADX
PctScale == 10 ^ 2

StepUnit == Scale \div 20
WickUnit == Scale \div 50
BasePrice == 50 * Scale

\* ------------------------------------------------------------------------
\* JavaScript values
\* ------------------------------------------------------------------------

Num(x) == [k |-> "num", v |-> x]
Null == [k |-> "null", v |-> 0]
Undefined == [k |-> "undefined", v |-> 0]
NaN == [k |-> "NaN", v |-> 0]

IsNum(a) == a.k = "num"
\* a == null
IsNullish(a) == a.k \in {"null", "undefined"}
\* ToNumber: null -> +0, undefined -> NaN
ToNumber(a) == IF a.k = "null" THEN Num(0) ELSE IF a.k = "undefined" THEN NaN ELSE a
\* isNaN(a)
IsNaN(a) == ToNumber(a).k = "NaN"

\* a > b, a < b, a >= b, a <= b with the abstract relational comparison
Gt(a, b) == IsNum(ToNumber(a)) /\ IsNum(ToNumber(b)) /\ ToNumber(a).v > ToNumber(b).v
Lt(a, b) == IsNum(ToNumber(a)) /\ IsNum(ToNumber(b)) /\ ToNumber(a).v < ToNumber(b).v
Ge(a, b) == IsNum(ToNumber(a)) /\ IsNum(ToNumber(b)) /\ ToNumber(a).v >= ToNumber(b).v
Le(a, b) == IsNum(ToNumber(a)) /\ IsNum(ToNumber(b)) /\ ToNumber(a).v <= ToNumber(b).v

\* a + b and a - b on values
Add(a, b) ==
    IF IsNum(ToNumber(a)) /\ IsNum(ToNumber(b))
    THEN Num(ToNumber(a).v + ToNumber(b).v) ELSE NaN
Sub(a, b) ==
    IF IsNum(ToNumber(a)) /\ IsNum(ToNumber(b))
    THEN Num(ToNumber(a).v - ToNumber(b).v) ELSE NaN

Abs(x) == IF x < 0 THEN -x ELSE x
Max2(a, b) == IF a >= b THEN a ELSE b
Min2(a, b) == IF a <= b THEN a ELSE b

\* floor(a * b / c) for a, b >= 0 and c > 0 without leaving 32 bits:
\* <<q, r>> with a * b = q * c + r, 0 <= r < c, for a, b >= 0 and c > 0, by
\* the expansion of b in base 16 (no intermediate value exceeds 31 * c or the
\* quotient)
RECURSIVE MulDivQR(_, _, _)
MulDivQR(a, b, c) ==
    IF b = 0 THEN <<0, 0>>
    ELSE LET h == MulDivQR(a, b \div 16, c)
             q2 == 16 * h[1] + (b % 16) * (a \div c)
             r2 == 16 * h[2] + (b % 16) * (a % c)
         IN <<q2 + r2 \div c, r2 % c>>
MulDiv(a, b, c) == MulDivQR(a, b, c)[1]

\* ------------------------------------------------------------------------
\* JavaScript arrays
\* ------------------------------------------------------------------------

\* Array(len).fill(v)
Fill(len, v) == [i \in 1..len |-> v]
\* arr[i]
At(arr, i) == IF i >= 0 /\ i < Len(arr) THEN arr[i + 1] ELSE Undefined
\* arr.at(-1)
AtLast(arr) == At(arr, Len(arr) - 1)
\* arr[i] = v: an index at or past the end grows the array
ArraySet(arr, i, v) ==
    IF i < Len(arr) THEN [arr EXCEPT ![i + 1] = v]
    ELSE arr \o Fill(i - Len(arr), Undefined) \o <<v>>
\* arr.slice(-k), k > 0
SliceLast(arr, k) ==
    IF Len(arr) <= k THEN arr ELSE SubSeq(arr, Len(arr) - k + 1, Len(arr))
\* arr.slice(i, j), 0 <= i
Slice(arr, i, j) == SubSeq(arr, i + 1, Min2(j, Len(arr)))

\* s[lo] + ... + s[hi]
RECURSIVE SumRange(_, _, _)
SumRange(s, lo, hi) ==
    IF lo > hi THEN 0
    ELSE IF lo = hi THEN s[lo]
    ELSE SumRange(s, lo, (lo + hi) \div 2) + SumRange(s, (lo + hi) \div 2 + 1, hi)
SumSeq(s) == SumRange(s, 1, Len(s))
\* Math.max(...s), Math.min(...s) of a non-empty s
MaxSeq(s) == s[CHOOSE i \in 1..Len(s) : \A j \in 1..Len(s) : s[i] >= s[j]]
MinSeq(s) == s[CHOOSE i \in 1..Len(s) : \A j \in 1..Len(s) : s[i] <= s[j]]

\* ------------------------------------------------------------------------
\* Candle resampler
\* ------------------------------------------------------------------------

\* one aggregate per full group of 4 candles: the body of the loop
Aggregate(group) ==
    [time   |-> group[1].time,
     open   |-> group[1].open,
     high   |-> MaxSeq([j \in 1..4 |-> group[j].high]),
     low    |-> MinSeq([j \in 1..4 |-> group[j].low]),
     close  |-> group[4].close,
     volume |-> SumSeq([j \in 1..4 |-> group[j].volume])]

\* the loop with the high of an aggregate taken from its first candle alone
RECURSIVE Reconstruct4hLoopFirstHigh(_, _, _, _)
Reconstruct4hLoopFirstHigh(candles, g, stop, result) ==
    IF ~(g < stop) THEN result
    ELSE IF stop - g = 1
    THEN LET group == Slice(candles, 4 * g, 4 * g + 4)
         IN IF Len(group) < 4 THEN result
            ELSE Append(result, [Aggregate(group) EXCEPT !.high = group[1].high])
    ELSE LET mid == (g + stop) \div 2
             first == Reconstruct4hLoopFirstHigh(candles, g, mid, result)
         IN IF first = first
            THEN Reconstruct4hLoopFirstHigh(candles, mid, stop, first) ELSE first

\* for (let i = 0; i < candles.length; i += 4), over the group numbers
\* g = i / 4 from g up to stop - 1
RECURSIVE Reconstruct4hLoop(_, _, _, _)
Reconstruct4hLoop(candles, g, stop, result) ==
    IF ~(g < stop) THEN result
    ELSE IF stop - g = 1
    THEN LET group == Slice(candles, 4 * g, 4 * g + 4)
         IN IF Len(group) < 4 THEN result
            ELSE Append(result, Aggregate(group))
    ELSE LET mid == (g + stop) \div 2
             first == Reconstruct4hLoop(candles, g, mid, result)
         IN IF first = first
            THEN Reconstruct4hLoop(candles, mid, stop, first) ELSE first

reconstruct4hFrom1h(candles) ==
    Reconstruct4hLoop(candles, 0, (Len(candles) + 3) \div 4, <<>>)

\* ------------------------------------------------------------------------
\* Indicator library
\*
\* A for loop of the source over i = from .. stop - 1 is an operator
\* XLoop(..., i, stop, st) that carries the loop's variables in st.  A range
\* of more than one index is run as its first half followed by its second
\* half, which is the same sequence of iterations at a logarithmic nesting
\* depth.
\* ------------------------------------------------------------------------

\* TRUE, once x has been computed: makes TLC finish the first half of a loop
\* before it starts the second
Evaluated(x) == x = x
\* y, computed after the values of the tuple xs: the statements of a function
\* run in their order, one after the other
After(xs, y) == IF Evaluated(xs) THEN y ELSE y

\* values[i] * k + prev * (1 - k) with k = 2 / (period + 1)
EmaStep(value, prev, period) == (2 * value + (period - 1) * prev) \div (period + 1)

RECURSIVE EmaLoop(_, _, _, _, _)
EmaLoop(values, period, i, stop, st) ==
    IF ~(i < stop) THEN st
    ELSE IF stop - i = 1
    THEN LET next == EmaStep(values[i + 1], st.prev, period)
         IN [prev |-> next, result |-> ArraySet(st.result, i, Num(next))]
    ELSE LET mid == (i + stop) \div 2
             first == EmaLoop(values, period, i, mid, st)
         IN IF Evaluated(first) THEN EmaLoop(values, period, mid, stop, first) ELSE first

calculateEMA(values, period) ==
    LET len == Len(values)
        result == Fill(len, Null)
    IN IF len < period THEN result
       ELSE LET prev == SumSeq(SubSeq(values, 1, period)) \div period
                st == [prev |-> prev, result |-> ArraySet(result, period - 1, Num(prev))]
            IN After(<<values, st>>, EmaLoop(values, period, period, len, st).result)

\* avgLoss === 0 ? 100 : 100 - 100 / (1 + avgGain / avgLoss)
RsiValue(avgGain, avgLoss) ==
    IF avgLoss = 0 THEN 100 * PctScale
    ELSE 100 * PctScale - (100 * PctScale * avgLoss) \div (avgLoss + avgGain)

\* the first loop of calculateRSI, over i = 1 .. period: <<gain, loss>>
RsiSeed(values, period) ==
    LET diff(i) == values[i + 1] - values[i]
    IN <<SumSeq([i \in 1..period |-> IF diff(i) >= 0 THEN diff(i) ELSE 0]),
         SumSeq([i \in 1..period |-> IF diff(i) >= 0 THEN 0 ELSE -diff(i)])>>

RECURSIVE RsiLoop(_, _, _, _, _)
RsiLoop(values, period, i, stop, st) ==
    IF ~(i < stop) THEN st
    ELSE IF stop - i = 1
    THEN LET diff == values[i + 1] - values[i]
             g == IF diff > 0 THEN diff ELSE 0
             l == IF diff < 0 THEN -diff ELSE 0
             ag == (st.avgGain * (period - 1) + g) \div period
             al == (st.avgLoss * (period - 1) + l) \div period
         IN [avgGain |-> ag, avgLoss |-> al,
             rsi |-> ArraySet(st.rsi, i, Num(RsiValue(ag, al)))]
    ELSE LET mid == (i + stop) \div 2
             first == RsiLoop(values, period, i, mid, st)
         IN IF Evaluated(first) THEN RsiLoop(values, period, mid, stop, first) ELSE first

calculateRSI(values, period) ==
    LET len == Len(values)
        rsi == Fill(len, Null)
    IN IF len < period + 1 THEN rsi
       ELSE LET gl == RsiSeed(values, period)
                avgGain == gl[1] \div period
                avgLoss == gl[2] \div period
                firstIndex == period + 1
                st == [avgGain |-> avgGain, avgLoss |-> avgLoss,
                       rsi |-> ArraySet(rsi, firstIndex, Num(RsiValue(avgGain, avgLoss)))]
            IN After(<<values, st>>, RsiLoop(values, period, firstIndex + 1, len, st).rsi)

\* macd[i] = ema12[i] - ema26[i] where both are set, else null
MacdLine(ema12, ema26) ==
    [i \in 1..Len(ema12) |->
       IF ~IsNullish(ema12[i]) /\ ~IsNullish(ema26[i])
       THEN Num(ema12[i].v - ema26[i].v) ELSE Null]

\* calculateEMA(macd.map((v) => v ?? 0), 9)
MacdSignal(macd) ==
    calculateEMA([i \in 1..Len(macd) |-> IF IsNullish(macd[i]) THEN 0 ELSE macd[i].v], 9)

\* histogram[i] = macd[i] - signal[i - 1] where both are set, else null
MacdHistogram(macd, signal) ==
    [i \in 1..Len(macd) |->
       IF ~IsNullish(macd[i]) /\ ~IsNullish(At(signal, i - 1))
       THEN Sub(macd[i], At(signal, i - 1)) ELSE Null]

\* return { macd, signal, histogram }
MacdResult(macd, signal) ==
    After(<<macd, signal>>,
          [macd |-> macd, signal |-> signal, histogram |-> MacdHistogram(macd, signal)])

\* the statements of calculateMACD from its signal line on
MacdFromLine(macd) == After(<<macd>>, MacdResult(macd, MacdSignal(macd)))

calculateMACD(values) ==
    After(<<values>>,
          MacdFromLine(MacdLine(calculateEMA(values, 12), calculateEMA(values, 26))))

\* how many of base, base + step, ..., base + (count - 1) * step have a square
\* of at most x
SqrtDigit(x, base, step, count) ==
    Cardinality({k \in 0..(count - 1) :
                   base + k * step <= 46340 /\ (base + k * step) * (base + k * step) <= x})
\* Math.sqrt on a non-negative integer, rounded down, found in steps of 256,
\* of 16 and of 1
Sqrt(x) ==
    LET a == (SqrtDigit(x, 0, 256, 182) - 1) * 256
        b == a + (SqrtDigit(x, a, 16, 16) - 1) * 16
    IN b + SqrtDigit(x, b, 1, 16) - 1

\* the deviations of calculateBollinger are squared in units of 1/BollScale
BollScale == 10 ^ 3

\* variance += diff * diff over j = from .. i
BollVariance(values, mean, from, i) ==
    SumSeq([n \in 1..(i - from + 1) |->
              LET diff == (values[from + n] - mean) \div (Scale \div BollScale)
              IN diff * diff])

RECURSIVE BollLoop(_, _, _, _, _, _)
BollLoop(values, period, mult, i, stop, st) ==
    IF ~(i < stop) THEN st
    ELSE IF stop - i = 1
    THEN LET sum == IF i > period - 1
                    THEN st.sum + values[i + 1] - values[i - period + 1] ELSE st.sum
             mean == sum \div period
             variance == BollVariance(values, mean, i - period + 1, i)
             std == Sqrt(variance \div period) * (Scale \div BollScale)
         IN [sum    |-> sum,
             upper  |-> ArraySet(st.upper, i, Num(mean + mult * std)),
             middle |-> ArraySet(st.middle, i, Num(mean)),
             lower  |-> ArraySet(st.lower, i, Num(mean - mult * std))]
    ELSE LET mid == (i + stop) \div 2
             first == BollLoop(values, period, mult, i, mid, st)
         IN IF Evaluated(first) THEN BollLoop(values, period, mult, mid, stop, first) ELSE first

calculateBollinger(values, period, mult) ==
    LET len == Len(values)
        bands == [upper |-> Fill(len, Null), middle |-> Fill(len, Null),
                  lower |-> Fill(len, Null)]
    IN IF len < period THEN bands
       ELSE LET st0 == [sum |-> SumSeq(SubSeq(values, 1, period)),
                        upper |-> bands.upper, middle |-> bands.middle,
                        lower |-> bands.lower]
                st == BollLoop(values, period, mult, period - 1, len, st0)
            IN After(<<values, st0, st>>,
                     [upper |-> st.upper, middle |-> st.middle, lower |-> st.lower])

\* the first loop of calculateADX: tr, plusDM and minusDM, index 0 left at 0
AdxTR(high, low, close) ==
    [n \in 1..Len(high) |->
       IF n = 1 THEN 0
       ELSE Max2(high[n] - low[n],
                 Max2(Abs(high[n] - close[n - 1]), Abs(low[n] - close[n - 1])))]
AdxPlusDM(high, low) ==
    [n \in 1..Len(high) |->
       IF n = 1 THEN 0
       ELSE LET up == high[n] - high[n - 1]
                down == low[n - 1] - low[n]
            IN IF up > down /\ up > 0 THEN up ELSE 0]
AdxMinusDM(high, low) ==
    [n \in 1..Len(high) |->
       IF n = 1 THEN 0
       ELSE LET up == high[n] - high[n - 1]
                down == low[n - 1] - low[n]
            IN IF down > up /\ down > 0 THEN down ELSE 0]

RECURSIVE SmoothLoop(_, _, _, _, _)
SmoothLoop(arr, period, i, stop, out) ==
    IF ~(i < stop) THEN out
    ELSE IF stop - i = 1
    THEN ArraySet(out, i, out[i] - out[i] \div period + arr[i + 1])
    ELSE LET mid == (i + stop) \div 2
             first == SmoothLoop(arr, period, i, mid, out)
         IN IF Evaluated(first) THEN SmoothLoop(arr, period, mid, stop, first) ELSE first

\* the closure smooth of calculateADX
smooth(arr, period) ==
    LET out == ArraySet(Fill(Len(arr), 0), period, SumSeq(SubSeq(arr, 2, period + 1)))
    IN After(<<arr, out>>, SmoothLoop(arr, period, period + 1, Len(arr), out))

\* plusSmooth[i] / trSmooth[i] * 100; 0 / 0 is NaN
AdxDI(dmSmooth, trSmooth) ==
    IF trSmooth = 0 THEN NaN ELSE Num(MulDiv(dmSmooth, 100 * PctScale, trSmooth))

\* Math.abs(plusDI - minusDI) / (plusDI + minusDI || 1) * 100
AdxDX(plusDI, minusDI) ==
    IF ~IsNum(plusDI) \/ ~IsNum(minusDI) THEN NaN
    ELSE IF plusDI.v + minusDI.v = 0 THEN Num(Abs(plusDI.v - minusDI.v) * 100)
    ELSE Num((Abs(plusDI.v - minusDI.v) * 100 * PctScale) \div (plusDI.v + minusDI.v))

\* sumDX += dx[i] over i = period .. start - 1; a NaN makes the sum NaN
AdxSumDX(dx, period, start) ==
    IF \E i \in period..(start - 1) : ~IsNum(dx[i + 1]) THEN NaN
    ELSE Num(SumSeq([n \in 1..(start - period) |-> dx[period + n].v]))

RECURSIVE AdxLoop(_, _, _, _, _)
AdxLoop(dx, period, i, stop, adx) ==
    IF ~(i < stop) THEN adx
    ELSE IF stop - i = 1
    THEN LET prev == adx[i]
             cur == IF IsNum(prev) /\ IsNum(dx[i + 1])
                    THEN Num((prev.v * (period - 1) + dx[i + 1].v) \div period)
                    ELSE NaN
         IN ArraySet(adx, i, cur)
    ELSE LET mid == (i + stop) \div 2
             first == AdxLoop(dx, period, i, mid, adx)
         IN IF Evaluated(first) THEN AdxLoop(dx, period, mid, stop, first) ELSE first

calculateADX(high, low, close, period) ==
    LET len == Len(high)
        adx == Fill(len, Null)
    IN IF len < period * 2 THEN adx
       ELSE LET tr == AdxTR(high, low, close)
                plusDM == AdxPlusDM(high, low)
                minusDM == AdxMinusDM(high, low)
                trSmooth == smooth(tr, period)
                plusSmooth == smooth(plusDM, period)
                minusSmooth == smooth(minusDM, period)
                dx == [n \in 1..len |->
                         IF n - 1 < period THEN Num(0)
                         ELSE AdxDX(AdxDI(plusSmooth[n], trSmooth[n]),
                                    AdxDI(minusSmooth[n], trSmooth[n]))]
                start == period * 2
                sumDX == AdxSumDX(dx, period, start)
                first == IF IsNum(sumDX) THEN Num(sumDX.v \div period) ELSE NaN
                adx0 == ArraySet(adx, start, first)
            IN After(<<high, low, close, tr, plusDM, minusDM,
                       trSmooth, plusSmooth, minusSmooth, dx, adx0>>,
                     AdxLoop(dx, period, start + 1, len, adx0))

\* (ema200.at(-1) - ema200[ema200.length - 5]) / 5, kept in units of
\* 1 / (5 * Scale) so that the division is exact and the sign is preserved
Ema200Slope(ema200) ==
    IF ~IsNullish(AtLast(ema200)) /\ ~IsNullish(At(ema200, Len(ema200) - 5))
    THEN Sub(AtLast(ema200), At(ema200, Len(ema200) - 5))
    ELSE Null

EmptyIndicators ==
    [rsi |-> <<>>, macd |-> <<>>, signal |-> <<>>, histogram |-> <<>>,
     ema20 |-> <<>>, ema50 |-> <<>>, ema200 |-> <<>>, adx |-> <<>>,
     bollingerBands |-> [upper |-> <<>>, middle |-> <<>>, lower |-> <<>>],
     ema200Slope |-> Null]

\* the object calculateIndicators returns, from the series it has extracted
\* and the two results that more than one of its fields reads
IndicatorSet(closes, highs, lows, ema200, m) ==
    After(<<closes, highs, lows, ema200, m>>,
          [rsi |-> calculateRSI(closes, 14),
           macd |-> m.macd, signal |-> m.signal, histogram |-> m.histogram,
           ema20 |-> calculateEMA(closes, 20),
           ema50 |-> calculateEMA(closes, 50),
           ema200 |-> ema200,
           adx |-> calculateADX(highs, lows, closes, 14),
           bollingerBands |-> calculateBollinger(closes, 20, 2),
           ema200Slope |-> Ema200Slope(ema200)])

\* calculateIndicators from the closes, highs and lows of data
IndicatorsOfSeries(closes, highs, lows) ==
    After(<<closes, highs, lows>>,
          IndicatorSet(closes, highs, lows, calculateEMA(closes, 200),
                       calculateMACD(closes)))

calculateIndicators(data) ==
    IF Len(data) = 0 THEN EmptyIndicators
    ELSE IndicatorsOfSeries([i \in 1..Len(data) |-> data[i].close],
                            [i \in 1..Len(data) |-> data[i].high],
                            [i \in 1..Len(data) |-> data[i].low])

\* ------------------------------------------------------------------------
\* Strings: a string is the sequence of its characters
\* ------------------------------------------------------------------------

Digit == <<"0", "1", "2", "3", "4", "5", "6", "7", "8", "9">>

\* s.includes(sub)
Includes(s, sub) ==
    \E i \in 1..(Len(s) - Len(sub) + 1) : SubSeq(s, i, i + Len(sub) - 1) = sub
\* s.endsWith(sub), s.startsWith(sub)
EndsWith(s, sub) ==
    Len(s) >= Len(sub) /\ SubSeq(s, Len(s) - Len(sub) + 1, Len(s)) = sub
StartsWith(s, sub) == Len(s) >= Len(sub) /\ SubSeq(s, 1, Len(sub)) = sub

\* the decimal digits of n >= 0
RECURSIVE Digits(_)
Digits(n) == IF n < 10 THEN <<Digit[n + 1]>> ELSE Append(Digits(n \div 10), Digit[(n % 10) + 1])
\* the last d decimal digits of n, zero-padded
RECURSIVE PadDigits(_, _)
PadDigits(n, d) ==
    IF d = 0 THEN <<>> ELSE Append(PadDigits(n \div 10, d - 1), Digit[(n % 10) + 1])

\* number of fixed-point units in 10^-d, d <= 5
UnitsOf(d) == Scale \div (10 ^ d)

\* Number.prototype.toFixed(d) of a value held in units of 1/Scale: rounds
\* the magnitude to d decimals, halves upwards
ToFixed(a, d) ==
    IF ~IsNum(ToNumber(a)) THEN <<"N", "a", "N">>
    ELSE LET x == ToNumber(a).v
             n == (Abs(x) + UnitsOf(d) \div 2) \div UnitsOf(d)
         IN (IF x < 0 THEN <<"-">> ELSE <<>>)
            \o Digits(n \div (10 ^ d))
            \o (IF d > 0 THEN <<".">> \o PadDigits(n % (10 ^ d), d) ELSE <<>>)

\* value of a digit string
RECURSIVE DigitsValue(_)
DigitsValue(s) ==
    IF s = <<>> THEN 0
    ELSE 10 * DigitsValue(SubSeq(s, 1, Len(s) - 1))
         + (CHOOSE k \in 0..9 : Digit[k + 1] = s[Len(s)])

IsDigits(s) == \A i \in 1..Len(s) : \E k \in 1..10 : Digit[k] = s[i]

\* Number(s) for a string written by toFixed, in units of 1/Scale
ParseNumber(s) ==
    LET neg == Len(s) > 0 /\ s[1] = "-"
        body == IF neg THEN Tail(s) ELSE s
        dot == IF \E i \in 1..Len(body) : body[i] = "."
               THEN CHOOSE i \in 1..Len(body) : body[i] = "." ELSE Len(body) + 1
        ip == SubSeq(body, 1, dot - 1)
        fp == SubSeq(body, dot + 1, Len(body))
    IN IF body = <<>> \/ ~IsDigits(ip) \/ ~IsDigits(fp) \/ Len(fp) > 5 THEN NaN
       ELSE LET mag == DigitsValue(ip) * Scale + DigitsValue(fp) * UnitsOf(Len(fp))
            IN Num(IF neg THEN -mag ELSE mag)

\* Number(x.toFixed(d))
RoundTo(a, d) == ParseNumber(ToFixed(a, d))

\* number of characters after the decimal point of a string
DecimalsOf(s) ==
    IF \E i \in 1..Len(s) : s[i] = "."
    THEN Len(s) - (CHOOSE i \in 1..Len(s) : s[i] = ".") ELSE 0

\* ------------------------------------------------------------------------
\* Analysis
\* ------------------------------------------------------------------------

\* mean of the last period true ranges of data, null below period + 1 bars
calculateATR(data, period) ==
    IF Len(data) < period + 1 THEN Null
    ELSE LET trs == [n \in 1..(Len(data) - 1) |->
                       Max2(data[n + 1].high - data[n + 1].low,
                            Max2(Abs(data[n + 1].high - data[n].close),
                                 Abs(data[n + 1].low - data[n].close)))]
             slice == SliceLast(trs, period)
         IN Num(SumSeq(slice) \div Len(slice))

\* thresholds: rsiBull, rsiBear and adxTrend in units of 1/PctScale,
\* macdNeutral in units of 1/Scale
Profile(rsiBull, rsiBear, macdNeutralPct, adxTrend) ==
    [rsiBull |-> rsiBull * PctScale, rsiBear |-> rsiBear * PctScale,
     macdNeutral |-> (macdNeutralPct * Scale) \div 100,
     adxTrend |-> adxTrend * PctScale]

getProfile(timeframe) ==
    CASE timeframe = "5M" -> Profile(55, 45, 8, 18)
      [] timeframe = "15M" -> Profile(55, 45, 10, 18)
      [] timeframe = "1H" -> Profile(60, 40, 15, 20)
      [] timeframe = "4H" -> Profile(55, 45, 20, 22)
      [] timeframe = "1D" -> Profile(52, 48, 15, 20)
      [] OTHER -> Profile(55, 45, 20, 20)

\* limitByTF[timeframe] || 100
Limit(timeframe) ==
    CASE timeframe = "5M" -> 40
      [] timeframe = "15M" -> 60
      [] timeframe = "1H" -> 48
      [] timeframe = "4H" -> 84
      [] timeframe = "1D" -> 120
      [] OTHER -> 100

\* the test with its two comparisons exchanged
wasActivatedOnTheNearSide(data, trigger, direction) ==
    LET lookback == SliceLast(data, 5)
    IN IF direction = "bull"
       THEN \E i \in 1..Len(lookback) : lookback[i].close < trigger
       ELSE \E i \in 1..Len(lookback) : lookback[i].close > trigger

wasActivated(data, trigger, direction) ==
    LET lookback == SliceLast(data, 5)
    IN IF direction = "bull"
       THEN \E i \in 1..Len(lookback) : lookback[i].close > trigger
       ELSE \E i \in 1..Len(lookback) : lookback[i].close < trigger

\* the table with the "=X" suffix tested ahead of "JPY"
getDecimalPlacesSuffixFirst(symbol) ==
    IF symbol = <<"B", "T", "C", "-", "U", "S", "D">> THEN 1
    ELSE IF Includes(symbol, <<"-", "U", "S", "D">>) THEN 5
    ELSE IF EndsWith(symbol, <<"=", "X">>) THEN 4
    ELSE IF Includes(symbol, <<"J", "P", "Y">>) THEN 2
    ELSE 2

getDecimalPlaces(symbol) ==
    IF symbol = <<"B", "T", "C", "-", "U", "S", "D">> THEN 1
    ELSE IF symbol = <<"E", "T", "H", "-", "U", "S", "D">> THEN 2
    ELSE IF symbol = <<"S", "O", "L", "-", "U", "S", "D">> THEN 3
    ELSE IF symbol = <<"X", "R", "P", "-", "U", "S", "D">> THEN 4
    ELSE IF symbol = <<"A", "D", "A", "-", "U", "S", "D">> THEN 4
    ELSE IF Includes(symbol, <<"-", "U", "S", "D">>) THEN 5
    ELSE IF Includes(symbol, <<"J", "P", "Y">>) THEN 2
    ELSE IF EndsWith(symbol, <<"=", "X">>) THEN 4
    ELSE IF symbol = <<"N", "G", "=", "F">> THEN 3
    ELSE IF symbol = <<"H", "G", "=", "F">> THEN 4
    ELSE IF symbol \in {<<"G", "C", "=", "F">>, <<"S", "I", "=", "F">>,
                        <<"C", "L", "=", "F">>} THEN 2
    ELSE IF StartsWith(symbol, <<"^">>) THEN 2
    ELSE 2

\* the truncation written slice(limit) in place of slice(-limit)
SliceIndicatorsFromLimit(indicators, limit) ==
    [indicators EXCEPT !.rsi = Slice(@, limit, Len(@)),
                       !.macd = Slice(@, limit, Len(@)),
                       !.signal = Slice(@, limit, Len(@)),
                       !.ema20 = Slice(@, limit, Len(@)),
                       !.ema50 = Slice(@, limit, Len(@)),
                       !.ema200 = Slice(@, limit, Len(@)),
                       !.adx = Slice(@, limit, Len(@))]

\* the in-place truncation of the IndicatorSet at the head of generateAnalysis
SliceIndicators(indicators, limit) ==
    [indicators EXCEPT !.rsi = SliceLast(@, limit),
                       !.macd = SliceLast(@, limit),
                       !.signal = SliceLast(@, limit),
                       !.ema20 = SliceLast(@, limit),
                       !.ema50 = SliceLast(@, limit),
                       !.ema200 = SliceLast(@, limit),
                       !.adx = SliceLast(@, limit)]

\* the guard without its tests of the MACD and signal values
ShortCircuitRsiOnly(data, lastRSI, lastMACD, lastSignal) ==
    Len(data) = 0 \/ IsNullish(lastRSI)

\* !last || lastRSI == null || lastMACD == null || lastSignal == null
ShortCircuit(data, lastRSI, lastMACD, lastSignal) ==
    Len(data) = 0 \/ IsNullish(lastRSI) \/ IsNullish(lastMACD) \/ IsNullish(lastSignal)

NoScenario == <<>>

InsufficientResult ==
    [kind |-> "insufficient",
     trendShort |-> "NEUTRAL", trendLong |-> "NEUTRAL",
     bullishScenario |-> NoScenario, bearishScenario |-> NoScenario,
     activeScenario |-> "none",
     price |-> "-", volatilityPct |-> 0, volatilityLevel |-> "Desconocida",
     sentiment |-> "Mixto", riskLevel |-> "Desconocido",
     bullPct |-> 0, bearPct |-> 0, neutralPct |-> 100,
     keySupport |-> "-"]

TrendLong(ema20Last, ema50Last, ema200Last) ==
    IF Gt(ema20Last, ema50Last) /\ Gt(ema50Last, ema200Last) THEN "ALCISTA"
    ELSE IF Lt(ema20Last, ema50Last) /\ Lt(ema50Last, ema200Last) THEN "BAJISTA"
    ELSE "NEUTRAL"

TrendShort(ema20Last, ema50Last) ==
    IF Gt(ema20Last, ema50Last) THEN "ALCISTA"
    ELSE IF Lt(ema20Last, ema50Last) THEN "BAJISTA"
    ELSE "NEUTRAL"

\* if (lastADX < profile.adxTrend) trendLong = "NEUTRAL"
AdxGate(trendLong, lastADX, profile) ==
    IF Lt(lastADX, Num(profile.adxTrend)) THEN "NEUTRAL" ELSE trendLong

SentimentLabel(lastRSI, lastMACD, lastSignal) ==
    IF Gt(lastRSI, Num(55 * PctScale)) /\ Gt(lastMACD, lastSignal)
    THEN "Predominio alcista"
    ELSE IF Lt(lastRSI, Num(45 * PctScale)) /\ Lt(lastMACD, lastSignal)
    THEN "Predominio bajista"
    ELSE "Mixto"

TrendStrength(lastADX, profile) ==
    IF Gt(lastADX, Num(profile.adxTrend + 5 * PctScale)) THEN "Fuerte"
    ELSE IF Gt(lastADX, Num(profile.adxTrend)) THEN "Moderada"
    ELSE "Débil"

\* the five contributions to bullScore, bearScore and neutralScore
Score(bull, bear, neutral) == [bull |-> bull, bear |-> bear, neutral |-> neutral]

RsiContribution(lastRSI, profile) ==
    IF Gt(lastRSI, Num(profile.rsiBull)) THEN Score(2, 0, 0)
    ELSE IF Lt(lastRSI, Num(profile.rsiBear)) THEN Score(0, 2, 0)
    ELSE Score(0, 0, 1)

MacdContribution(lastMACD, lastSignal, profile) ==
    LET macdDiff == Sub(lastMACD, lastSignal)
    IN IF IsNum(macdDiff) /\ Abs(macdDiff.v) < profile.macdNeutral THEN Score(0, 0, 2)
       ELSE IF Gt(macdDiff, Num(0)) THEN Score(2, 0, 0)
       ELSE Score(0, 2, 0)

EmaContribution(ema20Last, ema50Last) ==
    IF Gt(ema20Last, ema50Last) THEN Score(1, 0, 0)
    ELSE IF Lt(ema20Last, ema50Last) THEN Score(0, 1, 0)
    ELSE Score(0, 0, 1)

AdxContribution(lastADX, trendLong, profile) ==
    IF Gt(lastADX, Num(profile.adxTrend))
    THEN Score(IF trendLong = "ALCISTA" THEN 2 ELSE 0,
               IF trendLong = "BAJISTA" THEN 2 ELSE 0, 0)
    ELSE Score(0, 0, 1)

SlopeContribution(ema200Slope) ==
    IF ~IsNullish(ema200Slope)
    THEN IF Gt(ema200Slope, Num(0)) THEN Score(1, 0, 0)
         ELSE IF Lt(ema200Slope, Num(0)) THEN Score(0, 1, 0)
         ELSE Score(0, 0, 1)
    ELSE Score(0, 0, 0)

\* Math.round(x / total * 100) for integers x >= 0, total > 0
RoundPct(x, total) == (200 * x + total) \div (2 * total)

\* the three percentages each rounded on its own
PercentagesRoundedApart(bullScore, bearScore, neutralScore) ==
    LET total == IF bullScore + bearScore + neutralScore = 0 THEN 1
                 ELSE bullScore + bearScore + neutralScore
    IN [bullPct |-> RoundPct(bullScore, total), bearPct |-> RoundPct(bearScore, total),
        neutralPct |-> RoundPct(neutralScore, total)]

Percentages(bullScore, bearScore, neutralScore) ==
    LET total == IF bullScore + bearScore + neutralScore = 0 THEN 1
                 ELSE bullScore + bearScore + neutralScore
        bullPct == RoundPct(bullScore, total)
        bearPct == RoundPct(bearScore, total)
    IN [bullPct |-> bullPct, bearPct |-> bearPct,
        neutralPct |-> 100 - bullPct - bearPct]

\* if (!atr || isNaN(atr)) atr = price * 0.003
AtrOrDefault(atr, price) ==
    IF IsNullish(atr) \/ IsNaN(atr) \/ atr.v = 0 THEN (price * 3) \div 1000 ELSE atr.v

RECURSIVE SortAsc(_)
SortAsc(s) ==
    IF Len(s) <= 1 THEN s
    ELSE LET rest == SortAsc(Tail(s))
             below == SelectSeq(rest, LAMBDA x : x <= Head(s))
             above == SelectSeq(rest, LAMBDA x : x > Head(s))
         IN below \o <<Head(s)>> \o above
Reverse(s) == [i \in 1..Len(s) |-> s[Len(s) + 1 - i]]

\* [ema50Last, ema200Last].filter((v) => v != null)
DynamicLevels(ema50Last, ema200Last) ==
    (IF IsNullish(ema50Last) THEN <<>> ELSE <<ema50Last.v>>)
    \o (IF IsNullish(ema200Last) THEN <<>> ELSE <<ema200Last.v>>)

\* while (levels.length < 3) levels.push(levels.at(-1) + step)
RECURSIVE PadLevels(_, _)
PadLevels(levels, step) ==
    IF ~(Len(levels) < 3) THEN levels
    ELSE PadLevels(Append(levels, Add(AtLast(levels), Num(step))), step)

Resistances(rawResistance, dynamicLevels, price, atr) ==
    LET above == SelectSeq(<<rawResistance>> \o dynamicLevels, LAMBDA r : r > price)
        sorted == SortAsc(above)
    IN PadLevels([i \in 1..Len(sorted) |-> Num(sorted[i])], atr)

Supports(rawSupport, dynamicLevels, price, atr) ==
    LET below == SelectSeq(<<rawSupport>> \o dynamicLevels, LAMBDA x : x < price)
        sorted == Reverse(SortAsc(below))
    IN PadLevels([i \in 1..Len(sorted) |-> Num(sorted[i])], -atr)

isFX(symbol) ==
    \/ Includes(symbol, <<"U", "S", "D">>)
    \/ Includes(symbol, <<"J", "P", "Y">>)
    \/ Includes(symbol, <<"E", "U", "R">>)
    \/ Includes(symbol, <<"G", "B", "P">>)
    \/ Includes(symbol, <<"A", "U", "D">>)
    \/ Includes(symbol, <<"N", "Z", "D">>)
    \/ Includes(symbol, <<"C", "A", "D">>)
    \/ Includes(symbol, <<"C", "H", "F">>)

\* decimals and pip of the isFX block
FxDecimals(symbol) == IF Includes(symbol, <<"J", "P", "Y">>) THEN 3 ELSE 5
FxPip(symbol) ==
    IF Includes(symbol, <<"J", "P", "Y">>) THEN Scale \div 100 ELSE Scale \div 10000

\* the pip alone as the unit of the FX targets
AtrFXPipOnly(atr, pip) == pip

\* Math.max(atr || 0, pip)
AtrFX(atr, pip) == Max2(atr, pip)

\* dir of the isFX block
FxDir(trendLong) ==
    IF trendLong = "ALCISTA" THEN 1 ELSE IF trendLong = "BAJISTA" THEN -1 ELSE 0

\* the recomputed pair of targets of the isFX block, for dir # 0
FxTargets(baseTrigger, dir, atrFX, decimals) ==
    <<RoundTo(Num(baseTrigger + dir * atrFX * 3), decimals).v,
      RoundTo(Num(baseTrigger + dir * atrFX * 6), decimals).v>>

BullishTargets(bullishTrigger, atr, symbol, trendLong) ==
    IF isFX(symbol) /\ FxDir(trendLong) = 1
    THEN FxTargets(bullishTrigger, 1, AtrFX(atr, FxPip(symbol)), FxDecimals(symbol))
    ELSE <<bullishTrigger + atr, bullishTrigger + atr * 2>>

BearishTargets(bearishTrigger, atr, symbol, trendLong) ==
    IF isFX(symbol) /\ FxDir(trendLong) = -1
    THEN FxTargets(bearishTrigger, -1, AtrFX(atr, FxPip(symbol)), FxDecimals(symbol))
    ELSE <<bearishTrigger - atr, bearishTrigger - atr * 2>>

\* the three reported levels: rounded to the FX precision for an FX symbol;
\* levels[1] ?? first + pip * 5 and levels[2] ?? first + pip * 10 apply to a
\* missing entry only
FxLevel(levels, n, first, fallback) ==
    IF IsNullish(At(levels, n)) THEN Add(first, Num(fallback)) ELSE At(levels, n)

\* the levels rounded to the FX precision, R1 (S1) falling back on
\* price + sign * pip * 5
FxRounded(levels, symbol, price, sign) ==
    IF Len(levels) = 0
    THEN <<RoundTo(Num(price + sign * FxPip(symbol) * 5), FxDecimals(symbol))>>
    ELSE [i \in 1..Min2(3, Len(levels)) |-> RoundTo(levels[i], FxDecimals(symbol))]

\* R1, R2 ?? R1 + pip * 5, R3 ?? R1 + pip * 10 (S1, S2, S3 with step = -pip)
FxPadded(fx, step) ==
    <<fx[1], FxLevel(fx, 1, fx[1], step * 5), FxLevel(fx, 2, fx[1], step * 10)>>

ReportedLevels(levels, symbol, price, sign) ==
    IF ~isFX(symbol) THEN [i \in 1..3 |-> ToNumber(At(levels, i - 1))]
    ELSE FxPadded(FxRounded(levels, symbol, price, sign), sign * FxPip(symbol))

\* tfMults[timeframe] ?? 3, in tenths
tfMult10(timeframe) ==
    CASE timeframe = "5M" -> 15
      [] timeframe = "15M" -> 20
      [] timeframe = "1H" -> 30
      [] timeframe = "4H" -> 40
      [] timeframe = "1D" -> 60
      [] OTHER -> 30

allowBullish(trendShort, lastMACD, lastSignal, lastRSI) ==
    trendShort = "ALCISTA" /\ Ge(lastMACD, lastSignal) /\ Gt(lastRSI, Num(48 * PctScale))

\* the bearish condition without its test of trendShort
allowBearishAnyTrend(trendShort, lastMACD, lastSignal, lastRSI) ==
    Le(lastMACD, lastSignal) /\ Lt(lastRSI, Num(52 * PctScale))

allowBearish(trendShort, lastMACD, lastSignal, lastRSI) ==
    trendShort = "BAJISTA" /\ Le(lastMACD, lastSignal) /\ Lt(lastRSI, Num(52 * PctScale))

\* the scenario object; its texts are templates over timeframe, trigger and
\* invalidation
Scenario(trigger, targets, invalidation, activated, symbol) ==
    <<[trigger |-> ToFixed(Num(trigger), getDecimalPlaces(symbol)),
       target1 |-> ToFixed(Num(targets[1]), getDecimalPlaces(symbol)),
       target2 |-> ToFixed(Num(targets[2]), getDecimalPlaces(symbol)),
       invalidation |-> ToFixed(Num(invalidation), getDecimalPlaces(symbol)),
       status |-> IF activated THEN "ACTIVADO" ELSE "PENDIENTE"]>>

\* volatilityPct in units of 1/10000 of a percent
VolatilityPct(data, price) ==
    LET volWindow == SliceLast(data, 20)
        ranges == [i \in 1..Len(volWindow) |-> volWindow[i].high - volWindow[i].low]
        avgRange == IF Len(ranges) > 0 THEN SumSeq(ranges) \div Len(ranges) ELSE 0
    IN IF price > 0 THEN MulDiv(avgRange, 100 * 10000, price) ELSE 0

VolatilityLevel(volatilityPct) ==
    IF volatilityPct > 12000 THEN "Alta"
    ELSE IF volatilityPct > 6000 THEN "Media"
    ELSE "Baja"

\* the distance term of riskScore, from the trigger string of the scenario
DistanceRisk(bullishScenario, bearishScenario, price) ==
    IF bullishScenario = NoScenario /\ bearishScenario = NoScenario THEN 0
    ELSE LET activation == IF bullishScenario # NoScenario
                           THEN bullishScenario[1].trigger
                           ELSE bearishScenario[1].trigger
             actNum == ParseNumber(activation)
         IN IF ~IsNaN(actNum) /\ price > 0
            THEN LET dist == MulDiv(Abs(price - actNum.v), 100 * 100, price)
                 IN IF dist < 15 THEN 0 ELSE IF dist < 35 THEN 1 ELSE 2
            ELSE 0

RiskScore(volatilityLevel, bullishScenario, bearishScenario, price) ==
    (IF volatilityLevel = "Alta" THEN 2 ELSE IF volatilityLevel = "Media" THEN 1 ELSE 0)
    + DistanceRisk(bullishScenario, bearishScenario, price)

\* the levels with their thresholds one lower: at most 1, at most 3
RiskLevelOneLower(riskScore) ==
    IF riskScore <= 1 THEN "Bajo" ELSE IF riskScore <= 3 THEN "Medio" ELSE "Alto"

RiskLevel(riskScore) ==
    IF riskScore <= 2 THEN "Bajo" ELSE IF riskScore <= 4 THEN "Medio" ELSE "Alto"

ActiveScenario(bullishScenario, bearishScenario) ==
    IF bullishScenario # NoScenario /\ bullishScenario[1].status = "ACTIVADO" THEN "bullish"
    ELSE IF bearishScenario # NoScenario /\ bearishScenario[1].status = "ACTIVADO"
    THEN "bearish"
    ELSE "none"

\* levelsWindow.map((d) => d.high), levelsWindow.map((d) => d.low)
Highs(window) == [i \in 1..Len(window) |-> window[i].high]
Lows(window) == [i \in 1..Len(window) |-> window[i].low]

\* The body of generateAnalysis, statement group by statement group.  Each
\* group is an operator over the record s of the arguments and of the local
\* variables assigned so far, and extends s by the variables it assigns.

\* profile, limit and the truncation of data and of the IndicatorSet
GaTruncate(rawData, indicators0, timeframe, symbol, now) ==
    [rawData |-> rawData, timeframe |-> timeframe, symbol |-> symbol, now |-> now,
     profile |-> getProfile(timeframe),
     limit |-> Limit(timeframe),
     data |-> SliceLast(rawData, Limit(timeframe)),
     indicators |-> SliceIndicators(indicators0, Limit(timeframe))]

\* the last values of the truncated arrays
GaLast(s) ==
    [lastRSI |-> AtLast(s.indicators.rsi),
     lastMACD |-> AtLast(s.indicators.macd),
     lastSignal |-> AtLast(s.indicators.signal),
     lastADX |-> AtLast(s.indicators.adx),
     ema20Last |-> AtLast(s.indicators.ema20),
     ema50Last |-> AtLast(s.indicators.ema50),
     ema200Last |-> AtLast(s.indicators.ema200)] @@ s

\* trendLong with its ADX gate, and trendShort
GaTrend(s) ==
    [trendLong |-> AdxGate(TrendLong(s.ema20Last, s.ema50Last, s.ema200Last),
                           s.lastADX, s.profile),
     trendShort |-> TrendShort(s.ema20Last, s.ema50Last)] @@ s

\* what each of the five indicators adds to the three accumulators
GaContributions(s) ==
    [contributions |->
       <<RsiContribution(s.lastRSI, s.profile),
         MacdContribution(s.lastMACD, s.lastSignal, s.profile),
         EmaContribution(s.ema20Last, s.ema50Last),
         AdxContribution(s.lastADX, s.trendLong, s.profile),
         SlopeContribution(s.indicators.ema200Slope)>>] @@ s

GaScores(s) ==
    [bullScore |-> SumSeq([i \in 1..5 |-> s.contributions[i].bull]),
     bearScore |-> SumSeq([i \in 1..5 |-> s.contributions[i].bear]),
     neutralScore |-> SumSeq([i \in 1..5 |-> s.contributions[i].neutral])] @@ s

\* the percentages, price, and the raw levels of the last 30 candles
GaPrice(s) ==
    [pct |-> Percentages(s.bullScore, s.bearScore, s.neutralScore),
     price |-> s.data[Len(s.data)].close,
     rawResistance |-> MaxSeq(Highs(SliceLast(s.data, 30))),
     rawSupport |-> MinSeq(Lows(SliceLast(s.data, 30))),
     dynamicLevels |-> DynamicLevels(s.ema50Last, s.ema200Last)] @@ s

\* atr with its default, the key levels and the buffer
GaKeyLevels(s) ==
    [atr |-> AtrOrDefault(calculateATR(s.data, 14), s.price),
     keyResistanceNum |-> MaxSeq(<<s.rawResistance>> \o s.dynamicLevels),
     keySupportNum |-> MinSeq(<<s.rawSupport>> \o s.dynamicLevels),
     buffer |-> (s.price * 2) \div 10000] @@ s

\* the level lists, the triggers and the two scenario conditions
GaTriggers(s) ==
    [resistances |-> Resistances(s.rawResistance, s.dynamicLevels, s.price, s.atr),
     supports |-> Supports(s.rawSupport, s.dynamicLevels, s.price, s.atr),
     bullishTrigger |-> s.keyResistanceNum + s.buffer,
     bearishTrigger |-> s.keySupportNum - s.buffer,
     allowBull |-> allowBullish(s.trendShort, s.lastMACD, s.lastSignal, s.lastRSI),
     allowBear |-> allowBearish(s.trendShort, s.lastMACD, s.lastSignal, s.lastRSI)] @@ s

\* targets, reported levels, invalidations and activation of each side
GaTargets(s) ==
    [bullishTargets |-> BullishTargets(s.bullishTrigger, s.atr, s.symbol, s.trendLong),
     bearishTargets |-> BearishTargets(s.bearishTrigger, s.atr, s.symbol, s.trendLong),
     R |-> ReportedLevels(s.resistances, s.symbol, s.price, 1),
     SS |-> ReportedLevels(s.supports, s.symbol, s.price, -1),
     bullishInvalidation |-> s.bullishTrigger - (s.atr * tfMult10(s.timeframe)) \div 10,
     bearishInvalidation |-> s.bearishTrigger + (s.atr * tfMult10(s.timeframe)) \div 10,
     bullActivated |-> IF s.allowBull THEN wasActivated(s.data, s.bullishTrigger, "bull")
                       ELSE FALSE,
     bearActivated |-> IF s.allowBear THEN wasActivated(s.data, s.bearishTrigger, "bear")
                       ELSE FALSE] @@ s

\* the two scenario objects and the volatility
GaScenarios(s) ==
    [bullishScenario |->
       IF s.allowBull
       THEN Scenario(s.bullishTrigger, s.bullishTargets, s.bullishInvalidation,
                     s.bullActivated, s.symbol)
       ELSE NoScenario,
     bearishScenario |->
       IF s.allowBear
       THEN Scenario(s.bearishTrigger, s.bearishTargets, s.bearishInvalidation,
                     s.bearActivated, s.symbol)
       ELSE NoScenario,
     volatilityPct |-> VolatilityPct(s.data, s.price)] @@ s

GaRisk(s) ==
    [volatilityLevel |-> VolatilityLevel(s.volatilityPct),
     riskScore |-> RiskScore(VolatilityLevel(s.volatilityPct), s.bullishScenario,
                             s.bearishScenario, s.price)] @@ s

\* the return statement: the result object (its texts left out), the
\* IndicatorSet argument as the call leaves it, and the local variables
GaReturn(s) ==
    [result |->
       [kind |-> "analysis",
        trendShort |-> s.trendShort, trendLong |-> s.trendLong,
        bullPct |-> s.pct.bullPct, bearPct |-> s.pct.bearPct,
        neutralPct |-> s.pct.neutralPct,
        bullishScenario |-> s.bullishScenario,
        bearishScenario |-> s.bearishScenario,
        activeScenario |-> ActiveScenario(s.bullishScenario, s.bearishScenario),
        keySupport |-> ToFixed(Num(s.keySupportNum), 2),
        keyResistance |-> ToFixed(Num(s.keyResistanceNum), 2),
        keySupportNum |-> s.keySupportNum,
        keyResistanceNum |-> s.keyResistanceNum,
        price |-> s.price,
        volatilityPct |-> s.volatilityPct, volatilityLevel |-> s.volatilityLevel,
        sentiment |-> SentimentLabel(s.lastRSI, s.lastMACD, s.lastSignal),
        riskLevel |-> RiskLevel(s.riskScore),
        resistances |-> [R1Num |-> s.R[1], R2Num |-> s.R[2], R3Num |-> s.R[3]],
        supports |-> [S1Num |-> s.SS[1], S2Num |-> s.SS[2], S3Num |-> s.SS[3]],
        date |-> s.now],
     indicators |-> s.indicators,
     locals |->
       [returned |-> "analysis",
        lastRSI |-> s.lastRSI, lastMACD |-> s.lastMACD, lastSignal |-> s.lastSignal,
        lastADX |-> s.lastADX,
        ema20Last |-> s.ema20Last, ema50Last |-> s.ema50Last,
        ema200Last |-> s.ema200Last,
        trendStrength |-> TrendStrength(s.lastADX, s.profile),
        contributions |-> s.contributions,
        bullScore |-> s.bullScore, bearScore |-> s.bearScore,
        neutralScore |-> s.neutralScore,
        atr |-> s.atr,
        rawResistance |-> s.rawResistance, rawSupport |-> s.rawSupport,
        resistances |-> s.resistances, supports |-> s.supports,
        bullishTrigger |-> s.bullishTrigger, bearishTrigger |-> s.bearishTrigger,
        bullishTargets |-> s.bullishTargets, bearishTargets |-> s.bearishTargets,
        bullishInvalidation |-> s.bullishInvalidation,
        bearishInvalidation |-> s.bearishInvalidation,
        bullActivated |-> s.bullActivated, bearActivated |-> s.bearActivated,
        riskScore |-> s.riskScore]]

\* the early return for insufficient data, else the rest of the body
GaAfterGuard(s) ==
    IF ShortCircuit(s.data, s.lastRSI, s.lastMACD, s.lastSignal)
    THEN [result |-> InsufficientResult, indicators |-> s.indicators,
          locals |-> [returned |-> "insufficient"]]
    ELSE GaReturn(GaRisk(GaScenarios(GaTargets(GaTriggers(GaKeyLevels(GaPrice(
             GaScores(GaContributions(GaTrend(s))))))))))

\* generateAnalysis(rawData, indicators, timeframe, symbol) at time now:
\*   result      the returned object,
\*   indicators  the IndicatorSet argument as the call leaves it,
\*   locals      the local variables of the call at its return
generateAnalysis(rawData, indicators0, timeframe, symbol, now) ==
    GaAfterGuard(GaLast(GaTruncate(rawData, indicators0, timeframe, symbol, now)))

\* ------------------------------------------------------------------------
\* Candle series explored by the model
\* ------------------------------------------------------------------------

\* bars before the end at which a reversing shape turns around
Turn == 40

\* A shape <<u, d, v>>: u bars up, then d bars down, repeated; with v = 1 the
\* directions are exchanged over the last Turn bars.
Shapes ==
    {<<0, 0, 0>>, <<1, 0, 0>>, <<0, 1, 0>>, <<1, 1, 0>>,
     <<3, 2, 0>>, <<2, 3, 0>>, <<4, 3, 0>>, <<3, 4, 0>>,
     <<1, 0, 1>>, <<0, 1, 1>>, <<3, 2, 1>>, <<2, 3, 1>>}

\* net number of steps up after i bars of the cycle u up, d down
NetCycle(u, d, i) ==
    IF u + d = 0 THEN 0
    ELSE LET pos == i % (u + d)
         IN (i \div (u + d)) * (u - d) + (IF pos <= u THEN pos ELSE u - (pos - u))

\* net number of steps up after i bars of an n-bar series of the shape
NetSteps(shape, i, n) ==
    LET tp == IF shape[3] = 1 THEN Max2(0, n - Turn) ELSE n
    IN IF i <= tp THEN NetCycle(shape[1], shape[2], i)
       ELSE 2 * NetCycle(shape[1], shape[2], tp) - NetCycle(shape[1], shape[2], i)

\* an n-bar series: each bar opens at the previous close (the first at
\* BasePrice), closes one step away and has wicks of w above and below
Series(n, shape, amp, w) ==
    [i \in 1..n |->
       LET open == BasePrice + amp * StepUnit * NetSteps(shape, i - 1, n)
           close == BasePrice + amp * StepUnit * NetSteps(shape, i, n)
       IN [time   |-> i * 60,
           open   |-> open,
           high   |-> Max2(open, close) + w * WickUnit,
           low    |-> Min2(open, close) - w * WickUnit,
           close  |-> close,
           volume |-> 100 + i]]

\* A rebound <<f, t, m, b>>: the series rises one step per bar, falls one step
\* per bar from f bars before its end, rises m steps per bar over t bars and
\* falls m steps per bar over its last b bars.
Rebounds == {<<90, 4, 15, 0>>, <<30, 20, 22, 1>>}

\* net number of steps up after i bars of an n-bar rebound series
ReboundSteps(r, i, n) ==
    LET top == n - r[1]
        low == n - r[2] - r[4]
        peak == n - r[4]
    IN IF i <= top THEN i
       ELSE IF i <= low THEN 2 * top - i
       ELSE IF i <= peak THEN 2 * top - low + r[3] * (i - low)
       ELSE 2 * top - low + r[3] * (peak - low) - r[3] * (i - peak)

\* an n-bar rebound series without wicks, n > f
ReboundSeries(n, r) ==
    [i \in 1..n |->
       LET open == BasePrice + StepUnit * ReboundSteps(r, i - 1, n)
           close == BasePrice + StepUnit * ReboundSteps(r, i, n)
       IN [time   |-> i * 60,
           open   |-> open,
           high   |-> Max2(open, close),
           low    |-> Min2(open, close),
           close  |-> close,
           volume |-> 100 + i]]

LongLens == {41, 61, 101, 121, 205}
Lens == (0..MaxShort) \cup LongLens

BTCUSD == <<"B", "T", "C", "-", "U", "S", "D">>
USDJPY == <<"U", "S", "D", "J", "P", "Y", "=", "X">>
EURUSD == <<"E", "U", "R", "U", "S", "D", "=", "X">>
AAPL == <<"A", "A", "P", "L">>
Symbols == {BTCUSD, USDJPY, EURUSD, AAPL}
Timeframes == {"5M", "15M", "1H", "4H", "1D", "1W"}

NoResult == [kind |-> "none"]
NoLocals == [returned |-> "none"]

VARIABLES
    pc,              \* "start", "resampled", "indicators", "analysed", "done"
    oneHourCandles,  \* the 1H candles a 4H series was resampled from
    candles,         \* the candle series handed to the engine
    indicators,      \* the IndicatorSet object
    timeframe,       \* arguments of the generateAnalysis calls
    symbol,
    result,          \* what the first call returned
    locals,          \* the local variables of the first call
    result2,         \* what the second call, on the same objects, returned
    clock            \* the time new Date() reads

vars == <<pc, oneHourCandles, candles, indicators, timeframe, symbol,
          result, locals, result2, clock>>

Init ==
    /\ pc = "start"
    /\ \/ \E n \in Lens, shape \in Shapes, amp \in 1..MaxAmp :
            candles = Series(n, shape, amp, amp - 1)
       \/ \E n \in LongLens, r \in Rebounds :
            n > r[1] /\ candles = ReboundSeries(n, r)
    /\ oneHourCandles = <<>>
    /\ indicators = EmptyIndicators
    /\ timeframe = "none"
    /\ symbol = <<>>
    /\ result = NoResult
    /\ locals = NoLocals
    /\ result2 = NoResult
    /\ clock = 1

\* the 4H branch of the request handler: the series is rebuilt from 1H candles
Reconstruct ==
    /\ pc = "start"
    /\ oneHourCandles' = candles
    /\ candles' = reconstruct4hFrom1h(candles)
    /\ pc' = "resampled"
    /\ UNCHANGED <<indicators, timeframe, symbol, result, locals, result2, clock>>

CalcIndicators ==
    /\ pc \in {"start", "resampled"}
    /\ indicators' = calculateIndicators(candles)
    /\ pc' = "indicators"
    /\ UNCHANGED <<oneHourCandles, candles, timeframe, symbol, result, locals,
                   result2, clock>>

\* what a call that returns r leaves behind: the object it returned, its
\* local variables and the IndicatorSet it was handed
FirstCallReturns(r) ==
    /\ result' = r.result
    /\ locals' = r.locals
    /\ indicators' = r.indicators

SecondCallReturns(r) ==
    /\ result2' = r.result
    /\ indicators' = r.indicators

\* generateAnalysis(candles, indicators, tf, symbol)
Analyze ==
    /\ pc = "indicators"
    /\ \E tf \in Timeframes, sym \in Symbols :
         /\ oneHourCandles # <<>> => tf = "4H"
         /\ FirstCallReturns(generateAnalysis(candles, indicators, tf, sym, clock))
         /\ timeframe' = tf
         /\ symbol' = sym
    /\ clock' = clock + 1
    /\ pc' = "analysed"
    /\ UNCHANGED <<oneHourCandles, candles, result2>>

\* a second call with the very same candle array and IndicatorSet object
AnalyzeAgain ==
    /\ pc = "analysed"
    /\ SecondCallReturns(generateAnalysis(candles, indicators, timeframe, symbol, clock))
    /\ clock' = clock + 1
    /\ pc' = "done"
    /\ UNCHANGED <<oneHourCandles, candles, timeframe, symbol, result, locals>>

Next == Reconstruct \/ CalcIndicators \/ Analyze \/ AnalyzeAgain

Spec == Init /\ [][Next]_vars

\* ------------------------------------------------------------------------
\* generateAnalysis as a function of its arguments: the IndicatorSet handed to
\* it ends in last values drawn from small sets, among them an RSI inside the
\* band 48..52 together with a MACD equal to its signal
\* ------------------------------------------------------------------------

\* number of candles of the series handed over with a given IndicatorSet
GivenLen == 30

GivenRSI == {Null} \cup {Num(r * PctScale) : r \in {40, 49, 51, 60}}
GivenMACD == {Null} \cup {Num(m * (Scale \div 2)) : m \in {-1, 0, 1}}
GivenEMA20 == {Num(e * Scale) : e \in {49, 50, 51}}
GivenEMA200 == {Null, Num(49 * Scale)}
GivenADX == {Undefined, Num(30 * PctScale)}

\* arrays of n entries that end in the given values
GivenIndicators(n, rsi, macd, ema20, ema200, adx) ==
    LET ending(v) == Fill(n - 1, Null) \o <<v>>
    IN [rsi |-> ending(rsi), macd |-> ending(macd), signal |-> ending(Num(0)),
        histogram |-> ending(macd),
        ema20 |-> ending(ema20), ema50 |-> ending(Num(50 * Scale)),
        ema200 |-> ending(ema200), adx |-> ending(adx),
        bollingerBands |-> [upper |-> ending(Null), middle |-> ending(Null),
                            lower |-> ending(Null)],
        ema200Slope |-> Null]

InitGA ==
    /\ pc = "indicators"
    /\ candles = Series(GivenLen, <<1, 1, 0>>, 1, 0)
    /\ \E rsi \in GivenRSI, macd \in GivenMACD, ema20 \in GivenEMA20,
          ema200 \in GivenEMA200, adx \in GivenADX :
         indicators = GivenIndicators(GivenLen, rsi, macd, ema20, ema200, adx)
    /\ oneHourCandles = <<>>
    /\ timeframe = "none"
    /\ symbol = <<>>
    /\ result = NoResult
    /\ locals = NoLocals
    /\ result2 = NoResult
    /\ clock = 1

NextGA == Analyze \/ AnalyzeAgain

SpecGA == InitGA /\ [][NextGA]_vars

\* ------------------------------------------------------------------------
\* Properties
\* ------------------------------------------------------------------------

\* a call of generateAnalysis has returned
Analysed == pc \in {"analysed", "done"}
\* ... with a full analysis
FullAnalysis == Analysed /\ result.kind = "analysis"

\* C1: the result of generateAnalysis has at most one of bullishScenario and
\* bearishScenario non-null, and the bullish and the bearish eligibility
\* conditions never hold together, also for an RSI between 48 and 52 with a
\* MACD equal to its signal.
ScenariosMutuallyExclusive ==
    FullAnalysis =>
      /\ ~(result.bullishScenario # NoScenario /\ result.bearishScenario # NoScenario)
      /\ ~(/\ result.trendShort = "ALCISTA"
           /\ Ge(locals.lastMACD, locals.lastSignal)
           /\ Gt(locals.lastRSI, Num(48 * PctScale))
           /\ result.trendShort = "BAJISTA")
      /\ (result.bullishScenario # NoScenario <=>
            /\ result.trendShort = "ALCISTA"
            /\ Ge(locals.lastMACD, locals.lastSignal)
            /\ Gt(locals.lastRSI, Num(48 * PctScale)))
      /\ (result.bearishScenario # NoScenario <=>
            /\ result.trendShort = "BAJISTA"
            /\ Le(locals.lastMACD, locals.lastSignal)
            /\ Lt(locals.lastRSI, Num(52 * PctScale)))

\* a bullish scenario with the RSI inside the band and MACD equal to signal
OverlapBandScenario ==
    /\ FullAnalysis
    /\ Gt(locals.lastRSI, Num(48 * PctScale)) /\ Lt(locals.lastRSI, Num(52 * PctScale))
    /\ locals.lastMACD = locals.lastSignal
    /\ result.bullishScenario # NoScenario
    /\ result.bearishScenario = NoScenario

\* p = Math.round(100 * x / total), stated as 100x/total - 1/2 < p <= 100x/total + 1/2
IsRoundedPct(p, x, total) ==
    (2 * p - 1) * total <= 200 * x /\ 200 * x < (2 * p + 1) * total

\* C2: in every result the three percentages are integers that sum to 100; in
\* a full analysis bullPct and bearPct are the rounded shares of bullScore and
\* bearScore in total = bullScore + bearScore + neutralScore (1 for a sum of
\* 0), and neutralPct is the remainder 100 - bullPct - bearPct.
PercentagesSumTo100 ==
    Analysed =>
      /\ result.bullPct \in Int /\ result.bearPct \in Int /\ result.neutralPct \in Int
      /\ result.bullPct + result.bearPct + result.neutralPct = 100
      /\ result.kind = "analysis" =>
           LET sum == locals.bullScore + locals.bearScore + locals.neutralScore
               total == IF sum = 0 THEN 1 ELSE sum
           IN /\ IsRoundedPct(result.bullPct, locals.bullScore, total)
              /\ IsRoundedPct(result.bearPct, locals.bearScore, total)
              /\ result.neutralPct = 100 - result.bullPct - result.bearPct

\* a full analysis whose three scores, each rounded on its own, would not sum
\* to 100
RemainderAbsorbsRounding ==
    /\ FullAnalysis
    /\ locals.bullScore > 0 /\ locals.bearScore > 0 /\ locals.neutralScore > 0
    /\ LET total == locals.bullScore + locals.bearScore + locals.neutralScore
       IN ~IsRoundedPct(result.neutralPct, locals.neutralScore, total)

\* the sequences of an IndicatorSet
IndicatorArrays(ind) ==
    {ind.rsi, ind.macd, ind.signal, ind.histogram, ind.ema20, ind.ema50, ind.ema200,
     ind.adx, ind.bollingerBands.upper, ind.bollingerBands.middle,
     ind.bollingerBands.lower}

\* C3: every sequence that calculateEMA, calculateRSI, calculateMACD,
\* calculateBollinger and calculateADX return has exactly as many entries as
\* the input, whatever its length n >= 0.
IndicatorsAlignedWithInput ==
    pc = "indicators" => \A arr \in IndicatorArrays(indicators) : Len(arr) = Len(candles)

\* the last retained bar, or the last RSI, MACD or signal value, is undefined
LastValuesUndefined ==
    \/ candles = <<>>
    \/ IsNullish(AtLast(indicators.rsi))
    \/ IsNullish(AtLast(indicators.macd))
    \/ IsNullish(AtLast(indicators.signal))

\* C4: calculateIndicators followed by generateAnalysis always returns a
\* result; when the last retained bar or the last RSI, MACD or signal value
\* is undefined, and so for every series of fewer than 26 candles, it is the
\* fixed insufficient-data result, with no scoring, level or scenario
\* computation behind it.
InsufficientDataResult ==
    Analysed =>
      /\ result.kind \in {"insufficient", "analysis"}
      /\ (Len(candles) < 26 => LastValuesUndefined)
      /\ (LastValuesUndefined <=> result.kind = "insufficient")
      /\ result.kind = "insufficient" =>
           /\ locals.returned = "insufficient"
           /\ result.trendShort = "NEUTRAL" /\ result.trendLong = "NEUTRAL"
           /\ result.bullPct = 0 /\ result.bearPct = 0 /\ result.neutralPct = 100
           /\ result.bullishScenario = NoScenario
           /\ result.bearishScenario = NoScenario
           /\ result.activeScenario = "none"
           /\ result.price = "-" /\ result.keySupport = "-"

\* the insufficient-data result for a series with a defined RSI and no MACD
InsufficientWithRSI ==
    /\ Analysed
    /\ Len(candles) \in 16..25
    /\ ~IsNullish(AtLast(indicators.rsi))
    /\ IsNullish(AtLast(indicators.macd))
    /\ result.kind = "insufficient"

\* C5: reconstruct4hFrom1h applied to N candles returns floor(N/4) aggregates
\* in input order, a trailing group of fewer than 4 being dropped; aggregate
\* j (from 0) has the open and time of candle 4j, the close of candle 4j+3,
\* the maximum high, the minimum low and the summed volume of candles
\* 4j..4j+3.
ReconstructAggregatesGroupsOf4 ==
    pc = "resampled" =>
      /\ Len(candles) = Len(oneHourCandles) \div 4
      /\ \A j \in 1..Len(candles) :
           LET c(k) == oneHourCandles[4 * (j - 1) + k]
           IN /\ candles[j].open = c(1).open
              /\ candles[j].time = c(1).time
              /\ candles[j].close = c(4).close
              /\ \A k \in 1..4 : candles[j].high >= c(k).high /\ candles[j].low <= c(k).low
              /\ \E k \in 1..4 : candles[j].high = c(k).high
              /\ \E k \in 1..4 : candles[j].low = c(k).low
              /\ candles[j].volume = c(1).volume + c(2).volume + c(3).volume + c(4).volume

\* two aggregates and a dropped partial group, the first aggregate's high and
\* low set by candles other than its first
ReconstructDropsPartialGroup ==
    /\ pc = "resampled"
    /\ Len(oneHourCandles) % 4 # 0
    /\ Len(candles) >= 2
    /\ candles[1].high > oneHourCandles[1].high
    /\ candles[2].low < oneHourCandles[5].low

\* the strings of a scenario
ScenarioStrings(scenario) ==
    {scenario[1].trigger, scenario[1].target1, scenario[1].target2,
     scenario[1].invalidation}

\* every string of every scenario of the result has d decimals
ScenarioDecimals(d) ==
    /\ result.bullishScenario # NoScenario =>
         \A str \in ScenarioStrings(result.bullishScenario) : DecimalsOf(str) = d
    /\ result.bearishScenario # NoScenario =>
         \A str \in ScenarioStrings(result.bearishScenario) : DecimalsOf(str) = d

\* C6, as amended: the trigger, target1, target2 and invalidation strings of a
\* scenario have 1 decimal for the symbol "BTC-USD" and 2 decimals for a JPY
\* currency pair such as "USDJPY=X".
ScenarioDecimalsBtc1Jpy2 ==
    FullAnalysis =>
      /\ symbol = BTCUSD => ScenarioDecimals(1)
      /\ (Includes(symbol, <<"J", "P", "Y">>) /\ ~Includes(symbol, <<"-", "U", "S", "D">>))
           => ScenarioDecimals(2)

\* C6, as claimed: 1 decimal for "BTC-USD" and 3 decimals for a JPY pair.
ScenarioDecimalsBtc1Jpy3 ==
    FullAnalysis =>
      /\ symbol = BTCUSD => ScenarioDecimals(1)
      /\ Includes(symbol, <<"J", "P", "Y">>) => ScenarioDecimals(3)

\* a scenario for USDJPY=X
JpyScenario ==
    /\ FullAnalysis
    /\ symbol = USDJPY
    /\ result.bullishScenario # NoScenario \/ result.bearishScenario # NoScenario

\* C7: a second call of generateAnalysis with the very same candle array and
\* IndicatorSet object returns a result equal to the first in every field
\* except date.
SecondCallSameResult ==
    pc = "done" =>
      /\ DOMAIN result2 = DOMAIN result
      /\ \A f \in (DOMAIN result) \ {"date"} : result2[f] = result[f]

\* a second full analysis, at a later time, of an IndicatorSet that the first
\* call left shorter than the candle series
SecondCallOnTruncated ==
    /\ pc = "done"
    /\ result.kind = "analysis"
    /\ result2.kind = "analysis"
    /\ result2.date # result.date
    /\ Len(indicators.rsi) < Len(candles)

\* a step that is a call of generateAnalysis keeps its two array arguments
CallKeepsArguments ==
    pc \in {"indicators", "analysed"} => (candles' = candles /\ indicators' = indicators)

\* C8: a call of generateAnalysis leaves the candle sequence and the
\* IndicatorSet passed to it unchanged, for every timeframe and candle count.
AnalysisLeavesArgumentsUnchanged == [][CallKeepsArguments]_vars

\* C9: the ADX-gated contribution adds to exactly one accumulator: +2 bull
\* for ADX > adxTrend with a bullish trendLong, +2 bear for ADX > adxTrend
\* with a bearish trendLong, +1 neutral in every other case.
AdxContributionToOneAccumulator ==
    FullAnalysis =>
      LET strong == Gt(locals.lastADX, Num(getProfile(timeframe).adxTrend))
      IN locals.contributions[4] =
           IF strong /\ result.trendLong = "ALCISTA" THEN Score(2, 0, 0)
           ELSE IF strong /\ result.trendLong = "BAJISTA" THEN Score(0, 2, 0)
           ELSE Score(0, 0, 1)

\* t is x rounded to d decimals
IsRoundedTo(t, x, d) ==
    t % UnitsOf(d) = 0 /\ 2 * Abs(t - x) <= UnitsOf(d)

\* the targets of the scenario in the direction of trendLong are the trigger
\* plus dir * 3 * unit and dir * 6 * unit, rounded to the FX precision
FxTargetsInUnitsOf(unit) ==
    /\ result.trendLong = "ALCISTA" =>
         /\ IsRoundedTo(locals.bullishTargets[1], locals.bullishTrigger + 3 * unit,
                        FxDecimals(symbol))
         /\ IsRoundedTo(locals.bullishTargets[2], locals.bullishTrigger + 6 * unit,
                        FxDecimals(symbol))
    /\ result.trendLong = "BAJISTA" =>
         /\ IsRoundedTo(locals.bearishTargets[1], locals.bearishTrigger - 3 * unit,
                        FxDecimals(symbol))
         /\ IsRoundedTo(locals.bearishTargets[2], locals.bearishTrigger - 6 * unit,
                        FxDecimals(symbol))

\* C10, as amended: for a currency-pair symbol with a directional trendLong
\* the targets in the trend direction are trigger + dir * 3 * max(ATR, pip)
\* and trigger + dir * 6 * max(ATR, pip), rounded to 3 decimals for a JPY
\* pair and to 5 otherwise; they follow the ATR whenever it exceeds the pip.
FxTargetsFromAtrOrPip ==
    (FullAnalysis /\ isFX(symbol)) =>
      FxTargetsInUnitsOf(Max2(locals.atr, FxPip(symbol)))

\* C10, as claimed: the targets are trigger + dir * 3 * pip and
\* trigger + dir * 6 * pip, whatever the ATR.
FxTargetsFromPip ==
    (FullAnalysis /\ symbol \in {USDJPY, EURUSD}) =>
      FxTargetsInUnitsOf(FxPip(symbol))

\* a bullish scenario for a currency pair in a bullish trendLong, with an
\* ATR above the pip
FxBullishTargetsFromAtr ==
    /\ FullAnalysis
    /\ symbol = USDJPY
    /\ result.trendLong = "ALCISTA"
    /\ result.bullishScenario # NoScenario
    /\ locals.atr > FxPip(symbol)
    /\ locals.bullishTargets[1] > locals.bullishTrigger + 3 * FxPip(symbol)

\* the symbols of the model that are not currency pairs: a crypto asset and an
\* equity
NotCurrencyPair == symbol \in {BTCUSD, AAPL}

\* C11: for a symbol that is not a currency pair the targets are
\* trigger + ATR and trigger + 2 * ATR (bullish), trigger - ATR and
\* trigger - 2 * ATR (bearish), and the reported levels are the padded
\* candidate levels themselves.
NonCurrencyTargetsOneAndTwoAtr ==
    FullAnalysis /\ NotCurrencyPair =>
      /\ locals.bullishTargets =
           <<locals.bullishTrigger + locals.atr, locals.bullishTrigger + 2 * locals.atr>>
      /\ locals.bearishTargets =
           <<locals.bearishTrigger - locals.atr, locals.bearishTrigger - 2 * locals.atr>>
      /\ result.resistances.R1Num = ToNumber(At(locals.resistances, 0))
      /\ result.supports.S1Num = ToNumber(At(locals.supports, 0))

\* the reported triples as sequences
ReportedR == <<result.resistances.R1Num, result.resistances.R2Num, result.resistances.R3Num>>
ReportedS == <<result.supports.S1Num, result.supports.S2Num, result.supports.S3Num>>

\* the candidate levels: the raw level and the defined EMA50 and EMA200
CandidateResistances ==
    {c \in {locals.rawResistance} \cup {locals.ema50Last.v : x \in {y \in {1} : IsNum(locals.ema50Last)}}
           \cup {locals.ema200Last.v : x \in {y \in {1} : IsNum(locals.ema200Last)}} :
       c > result.price}
CandidateSupports ==
    {c \in {locals.rawSupport} \cup {locals.ema50Last.v : x \in {y \in {1} : IsNum(locals.ema50Last)}}
           \cup {locals.ema200Last.v : x \in {y \in {1} : IsNum(locals.ema200Last)}} :
       c < result.price}

\* three finite numbers beyond the last close, ordered away from it
ThreeFiniteOrdered(levels, sign) ==
    /\ \A i \in 1..3 : IsNum(levels[i])
    /\ sign * levels[1].v > sign * result.price
    /\ sign * levels[2].v >= sign * levels[1].v
    /\ sign * levels[3].v >= sign * levels[2].v

\* an entry past the candidates is one ATR beyond the entry before it
PaddedByAtr(levels, candidates, sign) ==
    \A i \in 2..3 :
      i > Cardinality(candidates) => levels[i].v = levels[i - 1].v + sign * locals.atr

\* C12: the reported resistances and supports are three finite numbers each,
\* the resistances above the last close in ascending order and the supports
\* below it in descending order, and an entry for which no candidate is left
\* lies one ATR beyond the entry before it.
LevelsThreeFiniteOrderedPadded ==
    FullAnalysis =>
      /\ ThreeFiniteOrdered(ReportedR, 1)
      /\ ThreeFiniteOrdered(ReportedS, -1)
      /\ ~isFX(symbol) => /\ PaddedByAtr(ReportedR, CandidateResistances, 1)
                          /\ PaddedByAtr(ReportedS, CandidateSupports, -1)

\* the same statement for the results that have a candidate on each side
LevelsOrderedGivenCandidates ==
    FullAnalysis /\ CandidateResistances # {} /\ CandidateSupports # {} =>
      /\ ThreeFiniteOrdered(ReportedR, 1)
      /\ ThreeFiniteOrdered(ReportedS, -1)
      /\ ~isFX(symbol) => /\ PaddedByAtr(ReportedR, CandidateResistances, 1)
                          /\ PaddedByAtr(ReportedS, CandidateSupports, -1)

\* the timeframes from the shortest to the longest
TimeframeOrder == <<"5M", "15M", "1H", "4H", "1D", "1W">>

\* the multiplier the call used, in tenths, read back from its invalidation
\* levels: the m with invalidation = trigger -+ ATR * m
UsedMultiplier10(m) ==
    /\ locals.bullishInvalidation = locals.bullishTrigger - (locals.atr * m) \div 10
    /\ locals.bearishInvalidation = locals.bearishTrigger + (locals.atr * m) \div 10

\* C13: the invalidation levels are trigger - ATR * m (bullish) and
\* trigger + ATR * m (bearish) for a multiplier m of the timeframe between 1.5
\* and 6 that is no smaller than the multiplier of any shorter timeframe.
InvalidationMultiplierNonDecreasing ==
    FullAnalysis =>
      /\ UsedMultiplier10(tfMult10(timeframe))
      /\ tfMult10(timeframe) \in 15..60
      /\ \A i \in 1..6 : \A j \in 1..i :
           TimeframeOrder[i] = timeframe =>
             tfMult10(TimeframeOrder[j]) <= tfMult10(timeframe)

\* the statement without its ordering of the multipliers
InvalidationMultiplierInRange ==
    FullAnalysis =>
      /\ UsedMultiplier10(tfMult10(timeframe))
      /\ tfMult10(timeframe) \in 15..60

\* C14: an undefined EMA on the last bar is not compared as a number: with
\* EMA50 undefined trendShort and trendLong are NEUTRAL, the EMA20-vs-EMA50
\* contribution adds nothing to the bull side and no scenario is produced;
\* with EMA200 undefined trendLong is NEUTRAL.
UndefinedEmaNeverZero ==
    FullAnalysis =>
      /\ IsNullish(locals.ema50Last) =>
           /\ result.trendShort = "NEUTRAL"
           /\ result.trendLong = "NEUTRAL"
           /\ locals.contributions[3].bull = 0
           /\ result.bullishScenario = NoScenario
           /\ result.bearishScenario = NoScenario
      /\ IsNullish(locals.ema200Last) => result.trendLong = "NEUTRAL"

\* C15: in every result each of bullPct, bearPct and neutralPct lies in
\* 0..100; neutralPct = 100 - bullPct - bearPct is never negative.
PercentagesWithin0And100 ==
    Analysed =>
      /\ result.bullPct \in 0..100
      /\ result.bearPct \in 0..100
      /\ result.neutralPct \in 0..100

\* the closes of the last 30 bars of the series handed to the call
Last30Closes == {SliceLast(candles, 30)[i].close : i \in 1..Min2(30, Len(candles))}

\* C16: no scenario has the status ACTIVADO and activeScenario is "none": the
\* bullish trigger is strictly above, and the bearish trigger strictly below,
\* every close of the last 30 retained bars, so that wasActivated is false on
\* the last 5.
NoScenarioEverActivated ==
    FullAnalysis =>
      /\ result.activeScenario = "none"
      /\ ~locals.bullActivated /\ ~locals.bearActivated
      /\ result.bullishScenario # NoScenario =>
           result.bullishScenario[1].status = "PENDIENTE"
      /\ result.bearishScenario # NoScenario =>
           result.bearishScenario[1].status = "PENDIENTE"
      /\ \A c \in Last30Closes :
           locals.bearishTrigger < c /\ c < locals.bullishTrigger

\* a bullish scenario on a series whose last close is the 30-bar maximum high
PendingAtTheHigh ==
    /\ FullAnalysis
    /\ result.bullishScenario # NoScenario
    /\ result.bullishScenario[1].status = "PENDIENTE"
    /\ candles[Len(candles)].close = locals.rawResistance

\* C17: the risk score is the volatility term (0, 1 or 2) plus the distance
\* term (0, 1 or 2, and 0 without a scenario), so it lies in 0..4; riskLevel is
\* "Bajo" for a score of at most 2 and "Medio" otherwise, never "Alto".
RiskScoreAtMost4 ==
    FullAnalysis =>
      /\ locals.riskScore \in 0..4
      /\ locals.riskScore =
           (CASE result.volatilityLevel = "Alta" -> 2
              [] result.volatilityLevel = "Media" -> 1
              [] result.volatilityLevel = "Baja" -> 0)
           + DistanceRisk(result.bullishScenario, result.bearishScenario, result.price)
      /\ (result.bullishScenario = NoScenario /\ result.bearishScenario = NoScenario) =>
           locals.riskScore <= 2
      /\ result.riskLevel = (IF locals.riskScore <= 2 THEN "Bajo" ELSE "Medio")
      /\ result.volatilityLevel =
           (IF result.volatilityPct > 12000 THEN "Alta"
            ELSE IF result.volatilityPct > 6000 THEN "Media" ELSE "Baja")

\* the highest score: high volatility and a trigger far from the price
RiskScore4IsMedio ==
    /\ FullAnalysis
    /\ locals.riskScore = 4
    /\ result.volatilityLevel = "Alta"
    /\ result.riskLevel = "Medio"

====
